---- MODULE Spec2Model ----
(***************************************************************************)
(* Model of the bulk interview-round scheduler of the recruitment backend  *)
(* (UserService.bulk_create_rounds and the route in front of it).          *)
(*                                                                         *)
(* A run is an asyncio coroutine: it can be suspended at every await       *)
(* (get_user_by_email, get_last_group_number, engine.save), so a run is a  *)
(* sequence of steps, each of which is the code from one await to the next.*)
(***************************************************************************)
EXTENDS Integers, Sequences, FiniteSets, TLC

VARIABLES db, run

vars == <<db, run>>

-----------------------------------------------------------------------------
(* Bounds of the model *)

MaxEmails == 3
MaxBatchSize == 2

-----------------------------------------------------------------------------
(* Input domains *)

Procs == {1, 2}

Stored == {"a", "b", "c"}
Unknown == {"x"}
EmailPool == Stored \cup Unknown

EmailLists == UNION {[1..n -> EmailPool] : n \in 0..MaxEmails}

\* "YYYY-MM-DD" strings as <<year, month, day>>; 2025-09-31 matches the
\* route's pattern but is no calendar date
DateStrs == {<<2025, 9, 5>>, <<2025, 9, 6>>, <<2025, 9, 7>>, <<2025, 9, 31>>}

\* "HH:MM" strings as <<hour, minute>>
StartTimes == {<<17, 0>>, <<17, 50>>}
EndTimes == {<<17, 25>>, <<17, 30>>, <<18, 30>>, <<24, 0>>}
Durations == {0, 10, 15}
BatchSizes == 0..MaxBatchSize

-----------------------------------------------------------------------------
(* Values *)

None == -1

NoDatetime == [date |-> <<0, 0, 0>>, time |-> <<0, 0>>]
NoRemarks == [kind |-> "none", batch |-> 0, group |-> 0]
EmptyRound == [status |-> "none", datetime |-> NoDatetime, remarks |-> NoRemarks]

NoUser == [email |-> "none", groupNumber |-> None, gd |-> EmptyRound,
           screening |-> EmptyRound, pi |-> EmptyRound, isPresent |-> FALSE,
           assignedSlot |-> "none"]

FreshUser(e) == [NoUser EXCEPT !.email = e]

\* a candidate left by an earlier run: group 2, some rounds already judged
PriorUser(e) ==
    [email |-> e, groupNumber |-> 2,
     gd |-> [status |-> "selected",
             datetime |-> [date |-> <<2025, 9, 4>>, time |-> <<17, 10>>],
             remarks |-> [kind |-> "text", batch |-> 2, group |-> 2]],
     screening |-> [status |-> "rejected",
             datetime |-> [date |-> <<2025, 9, 4>>, time |-> <<17, 20>>],
             remarks |-> [kind |-> "text", batch |-> 2, group |-> 2]],
     pi |-> [status |-> "absent",
             datetime |-> [date |-> <<2025, 9, 4>>, time |-> <<17, 30>>],
             remarks |-> [kind |-> "list", batch |-> 2, group |-> 2]],
     isPresent |-> TRUE, assignedSlot |-> "none"]

FreshDb == [e \in Stored |-> FreshUser(e)]
InitDbs == {FreshDb, [FreshDb EXCEPT !["c"] = PriorUser("c")]}

-----------------------------------------------------------------------------
(* Dates and times *)

\* int(hours) * 60 + int(minutes) of an "HH:MM" string
ParseHM(t) == t[1] * 60 + t[2]

ValidTime(t) == 0 <= t[1] /\ t[1] <= 23 /\ 0 <= t[2] /\ t[2] <= 59

\* roundDuration is not validated
RequestValid_AnyDuration(bs, st, et, rd) ==
    /\ bs > 0
    /\ ValidTime(st)
    /\ ValidTime(et)
    /\ ParseHM(et) > ParseHM(st)

\* pydantic validation of BulkCreateRoundsRequest
RequestValid(bs, st, et, rd) ==
    /\ bs > 0
    /\ rd > 0
    /\ ValidTime(st)
    /\ ValidTime(et)
    /\ ParseHM(et) > ParseHM(st)

\* datetime.strptime(s, "%Y-%m-%d"): dates are days since 2025-09-01
DateValid(s) ==
    /\ s[1] = 2025
    /\ \/ s[2] = 9 /\ s[3] \in 1..30
       \/ s[2] = 10 /\ s[3] \in 1..31

Strptime(s) == IF s[2] = 9 THEN s[3] - 1 ELSE 30 + s[3] - 1

\* strftime("%Y-%m-%d")
DateStr(d) == IF d < 30 THEN <<2025, 9, d + 1>> ELSE <<2025, 10, d - 29>>

\* date.weekday(): Monday = 0 .. Sunday = 6; 2025-09-01 is a Monday
Weekday(d) == d % 7

RECURSIVE SkipSundays(_)
SkipSundays(d) == IF Weekday(d) = 6 THEN SkipSundays(d + 1) ELSE d

\* the next calendar day, whatever its weekday
NextDay_NoSkip(d) == d + 1

\* current_date += timedelta(days=1); while weekday() == 6: += 1 day
NextDay(d) == SkipSundays(d + 1)

\* datetime.combine(date, time(hour, minute))
Combine(d, h, m) == [day |-> d, min |-> h * 60 + m]

\* datetime + timedelta(minutes=n)
AddMinutes(dt, n) ==
    LET t == dt.min + n
    IN  [day |-> dt.day + (t \div 1440), min |-> t % 1440]

\* strftime("%H:%M")
StrftimeHM(dt) == <<dt.min \div 60, dt.min % 60>>

\* datetime.isoformat()
Isoformat(dt) == [date |-> DateStr(dt.day), time |-> StrftimeHM(dt)]

-----------------------------------------------------------------------------
(* State *)

IdleRun ==
    [pc |-> "idle", err |-> "none",
     emails |-> <<>>, batch_size |-> 0, start_date |-> <<0, 0, 0>>,
     start_time |-> <<0, 0>>, end_time |-> <<0, 0>>, round_duration |-> 0,
     i |-> 0, users |-> <<>>, failed |-> <<>>,
     last_group |-> 0, current_group |-> 0,
     user_batches |-> <<>>, max_batches_per_day |-> 0,
     batches |-> <<>>, batch_number |-> 0,
     current_date |-> 0, batches_scheduled_today |-> 0,
     bi |-> 0, ui |-> 0,
     gd_time |-> [day |-> 0, min |-> 0],
     screening_time |-> [day |-> 0, min |-> 0],
     interview_time |-> [day |-> 0, min |-> 0],
     batch_emails |-> <<>>,
     result |-> [totalUsersScheduled |-> 0, totalBatches |-> 0,
                 batches |-> <<>>, failed |-> <<>>],
     db0 |-> FreshDb, db_read |-> FreshDb, max_reads |-> 0, ops |-> <<>>,
     user |-> NoUser,
     assigned_slot |-> "", unique_emails |-> <<>>,
     updated_count |-> 0, failed_count |-> 0, failed_emails |-> <<>>,
     target_group_number |-> 0, reference_user |-> NoUser, updated_users |-> <<>>,
     is_present |-> FALSE]

Init ==
    /\ db \in InitDbs
    /\ run = [p \in Procs |-> IdleRun]

-----------------------------------------------------------------------------
(* Pure parts of UserService *)

Min(x, y) == IF x <= y THEN x ELSE y
Max(x, y) == IF x >= y THEN x ELSE y

\* engine.find_one(User, User.email == email)
GetUserByEmail(d, e) == IF e \in DOMAIN d THEN d[e] ELSE NoUser

\* a missing user ends the lookup loop
AfterLookup_Break(r, u, e) ==
    IF u # NoUser
    THEN [r EXCEPT !.users = Append(@, u), !.i = @ + 1,
                   !.ops = Append(@, [op |-> "read", email |-> e])]
    ELSE [r EXCEPT !.failed = Append(@, [email |-> e, reason |-> "User not found"]),
                   !.i = Len(r.emails) + 1,
                   !.ops = Append(@, [op |-> "read", email |-> e])]

\* body of "for email in emails": append to users or to failed, continue
AfterLookup(r, u, e) ==
    IF u # NoUser
    THEN [r EXCEPT !.users = Append(@, u), !.i = @ + 1,
                   !.ops = Append(@, [op |-> "read", email |-> e])]
    ELSE [r EXCEPT !.failed = Append(@, [email |-> e, reason |-> "User not found"]),
                   !.i = @ + 1,
                   !.ops = Append(@, [op |-> "read", email |-> e])]

\* a draw with replacement instead of a permutation
ShuffleOutcomes_WithReplacement(s) ==
    {[k \in 1..Len(s) |-> s[f[k]]] : f \in [1..Len(s) -> 1..Len(s)]}

\* a random sample of the users, of any size, in any order
ShuffleOutcomes_Sample(s) ==
    {[k \in 1..n |-> s[f[k]]] :
        f \in Permutations(1..Len(s)), n \in 1..Len(s)}

\* random.shuffle(users): any permutation of the list
ShuffleOutcomes(s) ==
    {[k \in 1..Len(s) |-> s[f[k]]] : f \in Permutations(1..Len(s))}

\* truthiness of Optional[int]
Truthy(g) == g # None /\ g # 0

\* the number of users that have a group
GetLastGroupNumber_Count(d) ==
    Cardinality({e \in DOMAIN d : Truthy(d[e].groupNumber)})

\* get_last_group_number: highest groupNumber of all users, 0 if none
GetLastGroupNumber(d) ==
    LET gs == {d[e].groupNumber : e \in DOMAIN d}
        pos == {g \in gs : Truthy(g) /\ g > 0}
    IN  IF pos = {} THEN 0 ELSE CHOOSE g \in pos : \A h \in pos : h <= g

\* the partial batch at the end is dropped
Partition_DropPartial(users, b) ==
    [k \in 1..(Len(users) \div b) |-> SubSeq(users, (k - 1) * b + 1, k * b)]

\* every user gets a batch of its own
Partition_Singletons(users, b) ==
    [k \in 1..Len(users) |-> SubSeq(users, k, k)]

\* for i in range(0, len(users), batch_size): users[i:i + batch_size]
Partition(users, b) ==
    LET n == Len(users)
    IN  [k \in 1..((n + b - 1) \div b) |->
            SubSeq(users, (k - 1) * b + 1, Min(k * b, n))]

\* the day holds one batch per three rounds
MaxBatchesPerDay_ThreeRounds(total, rd) == Max(1, total \div (3 * rd))

\* the number of batches whose three rounds fit in the window
MaxBatchesPerDay_Fitting(total, rd) == Max(1, total \div rd - 2)

\* max_batches_per_day
MaxBatchesPerDay(total, rd) == Max(1, (total - 2 * rd) \div rd + 1)

\* the check allows for two rounds only
TooSmall_TwoRounds(total, rd) == total < 2 * rd

\* only an empty window is refused
TooSmall_NonPositive(total, rd) == total <= 0

\* total_minutes_per_day < 3 * round_duration
TooSmall(total, rd) == total < 3 * rd

\* the end check looks at the start of the interview
BatchEndMinutes_InterviewStart(start, rd) == start + 2 * rd

\* batch_end_minutes
BatchEndMinutes(start, rd) == start + 3 * rd

\* the next stage starts two durations later
StageAfter_Twice(dt, rd) == AddMinutes(dt, 2 * rd)

\* screening_time = gd_time + rd, interview_time = screening_time + rd
StageAfter(dt, rd) == AddMinutes(dt, rd)

\* the group counter is not advanced
NextGroup_Same(g) == g

\* current_group += 1
NextGroup(g) == g + 1

\* a batch starts when the one before it has finished its three rounds
BatchOffsetMinutes_Sequential(today, rd) == today * 3 * rd

\* batch_offset_minutes: a batch starts one round after the one before it
BatchOffsetMinutes(today, rd) == today * rd

\* top of the scheduling loop up to the three datetimes
ScheduleBatch(r) ==
    LET start_minutes == ParseHM(r.start_time)
        end_minutes == ParseHM(r.end_time)
        rd == r.round_duration
        full == r.batches_scheduled_today >= r.max_batches_per_day
        date1 == IF full THEN NextDay(r.current_date) ELSE r.current_date
        today1 == IF full THEN 0 ELSE r.batches_scheduled_today
        batch_start_minutes == start_minutes + BatchOffsetMinutes(today1, rd)
        late == BatchEndMinutes(batch_start_minutes, rd) > end_minutes
        date2 == IF late THEN NextDay(date1) ELSE date1
        today2 == IF late THEN 0 ELSE today1
        hour == IF late THEN r.start_time[1] ELSE batch_start_minutes \div 60
        minute == IF late THEN r.start_time[2] ELSE batch_start_minutes % 60
        gd == Combine(date2, hour, minute)
        scr == StageAfter(gd, rd)
    IN  [r EXCEPT !.current_date = date2,
                  !.batches_scheduled_today = today2,
                  !.gd_time = gd,
                  !.screening_time = scr,
                  !.interview_time = StageAfter(scr, rd),
                  !.batch_emails = <<>>,
                  !.ui = 1,
                  !.pc = "save"]

\* pi.remarks is a bare string like the other two
Label_AlwaysText(kind, r) ==
    [kind |-> "text", batch |-> r.batch_number, group |-> r.current_group]

\* f"Batch {batch_number} - Group {current_group}", bare or in a list
Label(kind, r) == [kind |-> kind, batch |-> r.batch_number, group |-> r.current_group]

\* the user is rebuilt from the defaults before it is stamped
StampUser_ResetsPresence(u, r) ==
    [u EXCEPT !.groupNumber = r.current_group,
              !.isPresent = FALSE,
              !.gd = [status |-> "scheduled",
                      datetime |-> Isoformat(r.gd_time),
                      remarks |-> Label("text", r)],
              !.screening = [status |-> "scheduled",
                      datetime |-> Isoformat(r.screening_time),
                      remarks |-> Label("text", r)],
              !.pi = [status |-> "scheduled",
                      datetime |-> Isoformat(r.interview_time),
                      remarks |-> Label("list", r)]]

\* the fields set on a user of the current batch before engine.save(user)
StampUser(u, r) ==
    [u EXCEPT !.groupNumber = r.current_group,
              !.gd = [status |-> "scheduled",
                      datetime |-> Isoformat(r.gd_time),
                      remarks |-> Label("text", r)],
              !.screening = [status |-> "scheduled",
                      datetime |-> Isoformat(r.screening_time),
                      remarks |-> Label("text", r)],
              !.pi = [status |-> "scheduled",
                      datetime |-> Isoformat(r.interview_time),
                      remarks |-> Label("list", r)]]

\* the write is buffered and never reaches the store
EngineSave_Deferred(d, u) == d

\* engine.save(user): the whole document replaces the stored one
EngineSave(d, u) == [d EXCEPT ![u.email] = u]

\* the saved user is fetched again
AfterSave_Refetch(r, u) ==
    [r EXCEPT !.batch_emails = Append(@, u.email), !.ui = @ + 1,
              !.ops = @ \o <<[op |-> "write", email |-> u.email],
                             [op |-> "read", email |-> u.email]>>]

\* engine.save(user) has returned: batch_emails.append(user.email)
AfterSave(r, u) ==
    [r EXCEPT !.batch_emails = Append(@, u.email), !.ui = @ + 1,
              !.ops = Append(@, [op |-> "write", email |-> u.email])]

BatchInfo(r) ==
    [batchNumber |-> r.batch_number,
     groupNumber |-> r.current_group,
     users |-> r.batch_emails,
     gdTime |-> StrftimeHM(r.gd_time),
     screeningTime |-> StrftimeHM(r.screening_time),
     interviewTime |-> StrftimeHM(r.interview_time),
     date |-> DateStr(r.current_date)]

-----------------------------------------------------------------------------
(* Actions of one run, process p *)

\* POST /bulk/create-rounds: request validation, then the service call begins
Begin(d, emails, bs, sd, st, et, rd) ==
    [IdleRun EXCEPT !.emails = emails, !.batch_size = bs,
                    !.start_date = sd, !.start_time = st,
                    !.end_time = et, !.round_duration = rd,
                    !.db0 = d, !.i = 1,
                    !.pc = IF RequestValid(bs, st, et, rd)
                           THEN "fetch" ELSE "rejected"]

Start(p) ==
    /\ run[p].pc = "idle"
    /\ \E emails \in EmailLists, bs \in BatchSizes, sd \in DateStrs,
          st \in StartTimes, et \in EndTimes, rd \in Durations :
          run' = [run EXCEPT ![p] = Begin(db, emails, bs, sd, st, et, rd)]
    /\ UNCHANGED db

\* one iteration of the lookup loop
Fetch(p) ==
    LET r == run[p] IN
    /\ r.pc = "fetch"
    /\ r.i <= Len(r.emails)
    /\ run' = [run EXCEPT ![p] =
                 AfterLookup(r, GetUserByEmail(db, r.emails[r.i]), r.emails[r.i])]
    /\ UNCHANGED db

\* if not users: return the empty summary
NoUsers(p) ==
    LET r == run[p] IN
    /\ r.pc = "fetch"
    /\ r.i > Len(r.emails)
    /\ r.users = <<>>
    /\ run' = [run EXCEPT ![p] =
                 [r EXCEPT !.pc = "done",
                           !.result = [totalUsersScheduled |-> 0, totalBatches |-> 0,
                                       batches |-> <<>>, failed |-> r.failed]]]
    /\ UNCHANGED db

\* random.shuffle(users), then the call of get_last_group_number
Shuffle(p) ==
    LET r == run[p] IN
    /\ r.pc = "fetch"
    /\ r.i > Len(r.emails)
    /\ r.users # <<>>
    /\ \E s \in ShuffleOutcomes(r.users) :
          run' = [run EXCEPT ![p] = [r EXCEPT !.users = s, !.pc = "readmax"]]
    /\ UNCHANGED db

\* get_last_group_number returns; parse the inputs, partition, capacity check
ReadMax(p) ==
    LET r == run[p]
        last == GetLastGroupNumber(db)
        total == ParseHM(r.end_time) - ParseHM(r.start_time)
        r1 == [r EXCEPT !.last_group = last,
                        !.current_group = last + 1,
                        !.max_reads = @ + 1,
                        !.db_read = db,
                        !.ops = Append(@, [op |-> "scan", email |-> "*"])]
    IN
    /\ r.pc = "readmax"
    /\ run' = [run EXCEPT ![p] =
         IF ~DateValid(r.start_date)
         THEN [r1 EXCEPT !.pc = "error", !.err = "date"]
         ELSE IF TooSmall(total, r.round_duration)
         THEN [r1 EXCEPT !.user_batches = Partition(r.users, r.batch_size),
                         !.max_batches_per_day = MaxBatchesPerDay(total, r.round_duration),
                         !.pc = "error", !.err = "capacity"]
         ELSE [r1 EXCEPT !.user_batches = Partition(r.users, r.batch_size),
                         !.max_batches_per_day = MaxBatchesPerDay(total, r.round_duration),
                         !.batch_number = 1,
                         !.current_date = Strptime(r.start_date),
                         !.batches_scheduled_today = 0,
                         !.bi = 1,
                         !.pc = "batch"]]
    /\ UNCHANGED db

\* next iteration of "for user_batch in user_batches", up to the first save
BeginBatch(p) ==
    LET r == run[p] IN
    /\ r.pc = "batch"
    /\ r.bi <= Len(r.user_batches)
    /\ run' = [run EXCEPT ![p] = ScheduleBatch(r)]
    /\ UNCHANGED db

\* stamp one user of the batch and await engine.save(user)
SaveUser(p) ==
    LET r == run[p]
        u == r.user_batches[r.bi][r.ui]
    IN
    /\ r.pc = "save"
    /\ r.ui <= Len(r.user_batches[r.bi])
    /\ db' = EngineSave(db, StampUser(u, r))
    /\ run' = [run EXCEPT ![p] = AfterSave(r, u)]

\* engine.save raises: nothing in the service catches it
SaveFails(p) ==
    LET r == run[p] IN
    /\ r.pc = "save"
    /\ r.ui <= Len(r.user_batches[r.bi])
    /\ run' = [run EXCEPT ![p] = [r EXCEPT !.pc = "error", !.err = "save"]]
    /\ UNCHANGED db

\* batches.append(batch_info) and the counters
EndBatch(p) ==
    LET r == run[p] IN
    /\ r.pc = "save"
    /\ r.ui > Len(r.user_batches[r.bi])
    /\ run' = [run EXCEPT ![p] =
                 [r EXCEPT !.batches = Append(@, BatchInfo(r)),
                           !.batch_number = @ + 1,
                           !.current_group = NextGroup(@),
                           !.batches_scheduled_today = @ + 1,
                           !.bi = @ + 1,
                           !.pc = "batch"]]
    /\ UNCHANGED db

\* the loop is over: return the summary
Return(p) ==
    LET r == run[p] IN
    /\ r.pc = "batch"
    /\ r.bi > Len(r.user_batches)
    /\ run' = [run EXCEPT ![p] =
                 [r EXCEPT !.pc = "done",
                           !.result = [totalUsersScheduled |-> Len(r.users),
                                       totalBatches |-> Len(r.user_batches),
                                       batches |-> r.batches,
                                       failed |-> r.failed]]]
    /\ UNCHANGED db

-----------------------------------------------------------------------------
(* One request at a time *)

Next ==
    \/ Start(1)
    \/ Fetch(1)
    \/ NoUsers(1)
    \/ Shuffle(1)
    \/ ReadMax(1)
    \/ BeginBatch(1)
    \/ SaveUser(1)
    \/ SaveFails(1)
    \/ EndBatch(1)
    \/ Return(1)

Spec == Init /\ [][Next]_vars

-----------------------------------------------------------------------------
(* Two requests at a time: the steps of two runs interleave at the awaits *)

ConcEmailLists == {<<"a">>, <<"b", "c">>, <<"x">>}
ConcDateStrs == {<<2025, 9, 5>>, <<2025, 9, 6>>}
ConcEndTimes == {<<17, 30>>, <<18, 30>>}

StartConc(p) ==
    /\ run[p].pc = "idle"
    /\ \E emails \in ConcEmailLists, sd \in ConcDateStrs, et \in ConcEndTimes :
          run' = [run EXCEPT ![p] = Begin(db, emails, 1, sd, <<17, 0>>, et, 10)]
    /\ UNCHANGED db

NextConc ==
    \E p \in Procs :
        \/ StartConc(p)
        \/ Fetch(p)
        \/ NoUsers(p)
        \/ Shuffle(p)
        \/ ReadMax(p)
        \/ BeginBatch(p)
        \/ SaveUser(p)
        \/ SaveFails(p)
        \/ EndBatch(p)
        \/ Return(p)

SpecConc == Init /\ [][NextConc]_vars

-----------------------------------------------------------------------------
(* One request at a time, with windows that end just before midnight *)

LateStartTimes == {<<17, 0>>, <<23, 20>>}
LateEndTimes == {<<17, 30>>, <<23, 59>>}
LateDateStrs == {<<2025, 9, 5>>, <<2025, 9, 30>>}
LateDurations == {10, 15}

StartLate(p) ==
    /\ run[p].pc = "idle"
    /\ \E emails \in EmailLists, bs \in BatchSizes, sd \in LateDateStrs,
          st \in LateStartTimes, et \in LateEndTimes, rd \in LateDurations :
          run' = [run EXCEPT ![p] = Begin(db, emails, bs, sd, st, et, rd)]
    /\ UNCHANGED db

NextLate ==
    \/ StartLate(1)
    \/ Fetch(1)
    \/ NoUsers(1)
    \/ Shuffle(1)
    \/ ReadMax(1)
    \/ BeginBatch(1)
    \/ SaveUser(1)
    \/ SaveFails(1)
    \/ EndBatch(1)
    \/ Return(1)

SpecLate == Init /\ [][NextLate]_vars

-----------------------------------------------------------------------------
(* bulk_assign_slots, process p *)

Slots == {"", "Slot A"}

SetOf(s) == {s[k] : k \in 1..Len(s)}

\* the list is used as it is, duplicates included
UniqueOrders_KeepDuplicates(emails) == {emails}

\* list(set(emails)): the distinct emails in any order
UniqueOrders(emails) ==
    LET es == SetOf(emails)
        n == Cardinality(es)
    IN  {s \in [1..n -> es] : \A j, k \in 1..n : s[j] = s[k] => j = k}

\* POST /bulk-assign-slots: both fields must be non-empty
SlotStart(p) ==
    /\ run[p].pc = "idle"
    /\ \E emails \in EmailLists, slot \in Slots :
          IF emails = <<>> \/ slot = ""
          THEN run' = [run EXCEPT ![p] =
                         [IdleRun EXCEPT !.emails = emails, !.assigned_slot = slot,
                                         !.db0 = db, !.pc = "slot_rejected"]]
          ELSE \E u \in UniqueOrders(emails) :
                  run' = [run EXCEPT ![p] =
                            [IdleRun EXCEPT !.emails = emails, !.assigned_slot = slot,
                                            !.unique_emails = u, !.i = 1,
                                            !.db0 = db, !.pc = "slot_fetch"]]
    /\ UNCHANGED db

\* get_user_by_email for the next distinct email
SlotFetch(p) ==
    LET r == run[p]
        e == r.unique_emails[r.i]
        u == GetUserByEmail(db, e)
    IN
    /\ r.pc = "slot_fetch"
    /\ r.i <= Len(r.unique_emails)
    /\ run' = [run EXCEPT ![p] =
         IF u # NoUser
         THEN [r EXCEPT !.user = u, !.pc = "slot_save"]
         ELSE [r EXCEPT !.failed_count = @ + 1,
                        !.failed_emails = Append(@, e),
                        !.i = @ + 1]]
    /\ UNCHANGED db

\* user.assignedSlot = assigned_slot; engine.save(user) returns
SlotSave(p) ==
    LET r == run[p] IN
    /\ r.pc = "slot_save"
    /\ db' = EngineSave(db, [r.user EXCEPT !.assignedSlot = r.assigned_slot])
    /\ run' = [run EXCEPT ![p] =
                 [r EXCEPT !.updated_count = @ + 1, !.i = @ + 1,
                           !.user = NoUser, !.pc = "slot_fetch"]]

\* engine.save raises: the except branch counts the email as failed
SlotSaveFails(p) ==
    LET r == run[p] IN
    /\ r.pc = "slot_save"
    /\ run' = [run EXCEPT ![p] =
                 [r EXCEPT !.failed_count = @ + 1,
                           !.failed_emails = Append(@, r.unique_emails[r.i]),
                           !.i = @ + 1,
                           !.user = NoUser, !.pc = "slot_fetch"]]
    /\ UNCHANGED db

\* the loop is over: return the counts
SlotReturn(p) ==
    LET r == run[p] IN
    /\ r.pc = "slot_fetch"
    /\ r.i > Len(r.unique_emails)
    /\ run' = [run EXCEPT ![p] = [r EXCEPT !.pc = "slot_done"]]
    /\ UNCHANGED db

NextSlots ==
    \/ SlotStart(1)
    \/ SlotFetch(1)
    \/ SlotSave(1)
    \/ SlotSaveFails(1)
    \/ SlotReturn(1)

SpecSlots == Init /\ [][NextSlots]_vars

-----------------------------------------------------------------------------
(* change_user_groups, process p *)

\* a candidate of group 3 whose pi has no datetime
HalfUser(e) ==
    [PriorUser(e) EXCEPT !.groupNumber = 3,
                         !.pi = [status |-> "scheduled", datetime |-> NoDatetime,
                                 remarks |-> NoRemarks]]

\* a candidate of group 4 that was never scheduled
BareUser(e) == [FreshUser(e) EXCEPT !.groupNumber = 4]

\* a candidate of group 5 with a schedule and judgements of its own
OtherUser(e) ==
    [email |-> e, groupNumber |-> 5,
     gd |-> [status |-> "absent",
             datetime |-> [date |-> <<2025, 9, 3>>, time |-> <<18, 0>>],
             remarks |-> [kind |-> "text", batch |-> 1, group |-> 5]],
     screening |-> [status |-> "selected",
             datetime |-> [date |-> <<2025, 9, 3>>, time |-> <<18, 15>>],
             remarks |-> [kind |-> "text", batch |-> 1, group |-> 5]],
     pi |-> [status |-> "rejected",
             datetime |-> [date |-> <<2025, 9, 3>>, time |-> <<18, 30>>],
             remarks |-> [kind |-> "list", batch |-> 1, group |-> 5]],
     isPresent |-> FALSE, assignedSlot |-> "none"]

GroupDbs ==
    {[FreshDb EXCEPT !["c"] = PriorUser("c")],
     [FreshDb EXCEPT !["c"] = PriorUser("c"), !["b"] = HalfUser("b")],
     [FreshDb EXCEPT !["c"] = PriorUser("c"), !["b"] = BareUser("b")],
     [FreshDb EXCEPT !["c"] = PriorUser("c"), !["a"] = OtherUser("a")]}

Targets == {1, 2, 3, 4}

InitGroups ==
    /\ db \in GroupDbs
    /\ run = [p \in Procs |-> IdleRun]

\* engine.find(User, User.groupNumber == target_group_number)
TargetGroupList(d, g) == {e \in DOMAIN d : d[e].groupNumber = g}

\* the status is set to scheduled whatever it was
RoundStatus_Scheduled(round) == "scheduled"

\* round.get("status", "scheduled") if round else "scheduled"
RoundStatus(round) == IF round # EmptyRound THEN round.status ELSE "scheduled"

\* only the group number is changed
MoveUser_KeepsTimes(u, ref, g) == [u EXCEPT !.groupNumber = g]

\* the fields set on a moved user before engine.save(user)
MoveUser(u, ref, g) ==
    [u EXCEPT !.groupNumber = g,
              !.gd = [status |-> RoundStatus(u.gd),
                      datetime |-> ref.gd.datetime,
                      remarks |-> ref.gd.remarks],
              !.screening = [status |-> RoundStatus(u.screening),
                      datetime |-> ref.screening.datetime,
                      remarks |-> ref.gd.remarks],
              !.pi = [status |-> RoundStatus(u.pi),
                      datetime |-> ref.pi.datetime,
                      remarks |-> [ref.gd.remarks EXCEPT !.kind = "list"]]]

\* PUT /change-group with emails from E and targetGroupNumber from T
GroupStartFrom(p, E, T) ==
    /\ run[p].pc = "idle"
    /\ \E emails \in E, g \in T :
          run' = [run EXCEPT ![p] =
                    [IdleRun EXCEPT !.emails = emails, !.target_group_number = g,
                                    !.db0 = db, !.pc = "grp_find"]]
    /\ UNCHANGED db

GroupStart(p) == GroupStartFrom(p, EmailLists, Targets)

\* the target group is read; its first user is the reference
GroupFind(p) ==
    LET r == run[p]
        members == TargetGroupList(db, r.target_group_number)
    IN
    /\ r.pc = "grp_find"
    /\ IF members = {}
       THEN run' = [run EXCEPT ![p] = [r EXCEPT !.pc = "grp_error", !.err = "missing"]]
       ELSE \E m \in members :
              LET ref == db[m] IN
              run' = [run EXCEPT ![p] =
                 IF ref.gd = EmptyRound \/ ref.screening = EmptyRound
                        \/ ref.pi = EmptyRound
                 THEN [r EXCEPT !.pc = "grp_error", !.err = "incomplete"]
                 ELSE IF ref.gd.datetime = NoDatetime
                        \/ ref.screening.datetime = NoDatetime
                        \/ ref.pi.datetime = NoDatetime
                 THEN [r EXCEPT !.pc = "grp_error", !.err = "incomplete"]
                 ELSE [r EXCEPT !.reference_user = ref, !.i = 1, !.pc = "grp_fetch"]]
    /\ UNCHANGED db

\* get_user_by_email for the next email
GroupFetch(p) ==
    LET r == run[p]
        e == r.emails[r.i]
        u == GetUserByEmail(db, e)
    IN
    /\ r.pc = "grp_fetch"
    /\ r.i <= Len(r.emails)
    /\ run' = [run EXCEPT ![p] =
         IF u # NoUser
         THEN [r EXCEPT !.user = u, !.pc = "grp_save"]
         ELSE [r EXCEPT !.failed = Append(@, [email |-> e, reason |-> "User not found"]),
                        !.i = @ + 1]]
    /\ UNCHANGED db

\* the user is given the group and its times; engine.save(user) returns
GroupSave(p) ==
    LET r == run[p] IN
    /\ r.pc = "grp_save"
    /\ db' = EngineSave(db, MoveUser(r.user, r.reference_user, r.target_group_number))
    /\ run' = [run EXCEPT ![p] =
                 [r EXCEPT !.updated_users = Append(@, r.user.email),
                           !.i = @ + 1, !.user = NoUser, !.pc = "grp_fetch"]]

\* engine.save raises: the except branch adds the email to failed
GroupSaveFails(p) ==
    LET r == run[p] IN
    /\ r.pc = "grp_save"
    /\ run' = [run EXCEPT ![p] =
                 [r EXCEPT !.failed = Append(@, [email |-> r.user.email, reason |-> "save"]),
                           !.i = @ + 1, !.user = NoUser, !.pc = "grp_fetch"]]
    /\ UNCHANGED db

\* the loop is over: return updated and failed
GroupReturn(p) ==
    LET r == run[p] IN
    /\ r.pc = "grp_fetch"
    /\ r.i > Len(r.emails)
    /\ run' = [run EXCEPT ![p] = [r EXCEPT !.pc = "grp_done"]]
    /\ UNCHANGED db

NextGroups ==
    \/ GroupStart(1)
    \/ GroupFind(1)
    \/ GroupFetch(1)
    \/ GroupSave(1)
    \/ GroupSaveFails(1)
    \/ GroupReturn(1)

SpecGroups == InitGroups /\ [][NextGroups]_vars

-----------------------------------------------------------------------------
(* A sequence of calls of bulk_create_rounds and change_user_groups, one at *)
(* a time, from a store in which nobody has a group                         *)

\* no call of bulk_create_rounds starts once this group number is in use
MaxGroups == 3

SeqEmailLists == {<<"a">>, <<"a", "b">>, <<"b", "c">>, <<"c", "c">>, <<"x">>}
SeqDateStrs == {<<2025, 9, 5>>, <<2025, 9, 6>>}

InitSeq ==
    /\ db = FreshDb
    /\ run = [p \in Procs |-> IdleRun]

StartSeq(p) ==
    /\ run[p].pc = "idle"
    /\ GetLastGroupNumber(db) < MaxGroups
    /\ \E emails \in SeqEmailLists, bs \in {1, 2}, sd \in SeqDateStrs :
          run' = [run EXCEPT ![p] = Begin(db, emails, bs, sd, <<17, 0>>, <<17, 30>>, 10)]
    /\ UNCHANGED db

GroupStartSeq(p) == GroupStartFrom(p, SeqEmailLists, 1..MaxGroups)

\* the response is sent: the next call can start
Finish(p) ==
    /\ run[p].pc \in {"done", "error", "grp_done", "grp_error"}
    /\ run' = [run EXCEPT ![p] = IdleRun]
    /\ UNCHANGED db

NextSeq ==
    \/ StartSeq(1)
    \/ Fetch(1)
    \/ NoUsers(1)
    \/ Shuffle(1)
    \/ ReadMax(1)
    \/ BeginBatch(1)
    \/ SaveUser(1)
    \/ SaveFails(1)
    \/ EndBatch(1)
    \/ Return(1)
    \/ GroupStartSeq(1)
    \/ GroupFind(1)
    \/ GroupFetch(1)
    \/ GroupSave(1)
    \/ GroupSaveFails(1)
    \/ GroupReturn(1)
    \/ Finish(1)

SpecSeq == InitSeq /\ [][NextSeq]_vars

-----------------------------------------------------------------------------
(* update_attendance_by_email, process p *)

\* PATCH /{email}/attendance with isPresent true or false
AttStart(p) ==
    /\ run[p].pc = "idle"
    /\ \E e \in EmailPool, v \in BOOLEAN :
          run' = [run EXCEPT ![p] =
                    [IdleRun EXCEPT !.emails = <<e>>, !.is_present = v,
                                    !.db0 = db, !.pc = "att_fetch"]]
    /\ UNCHANGED db

\* get_user_by_email returns; None ends the call
AttFetch(p) ==
    LET r == run[p]
        u == GetUserByEmail(db, r.emails[1])
    IN
    /\ r.pc = "att_fetch"
    /\ run' = [run EXCEPT ![p] =
         IF u # NoUser
         THEN [r EXCEPT !.user = u, !.pc = "att_save"]
         ELSE [r EXCEPT !.pc = "att_done"]]
    /\ UNCHANGED db

\* user.isPresent = is_present; engine.save(user) returns
AttSave(p) ==
    LET r == run[p]
        u == [r.user EXCEPT !.isPresent = r.is_present]
    IN
    /\ r.pc = "att_save"
    /\ db' = EngineSave(db, u)
    /\ run' = [run EXCEPT ![p] = [r EXCEPT !.user = u, !.pc = "att_done"]]

\* engine.save raises: the route answers 400
AttSaveFails(p) ==
    LET r == run[p] IN
    /\ r.pc = "att_save"
    /\ run' = [run EXCEPT ![p] = [r EXCEPT !.pc = "att_error", !.err = "save"]]
    /\ UNCHANGED db

\* a run of bulk_create_rounds and one attendance update, interleaved
NextAttend ==
    \/ StartConc(1)
    \/ Fetch(1)
    \/ NoUsers(1)
    \/ Shuffle(1)
    \/ ReadMax(1)
    \/ BeginBatch(1)
    \/ SaveUser(1)
    \/ SaveFails(1)
    \/ EndBatch(1)
    \/ Return(1)
    \/ AttStart(2)
    \/ AttFetch(2)
    \/ AttSave(2)
    \/ AttSaveFails(2)

SpecAttend == Init /\ [][NextAttend]_vars

-----------------------------------------------------------------------------
(* Vocabulary of the properties *)

Ceil(n, b) == (n + b - 1) \div b

IsStored(e) == e \in Stored
IsUnknown(e) == e \notin Stored

\* the requested emails that resolve, in request order
Resolved(r) == SelectSeq(r.emails, IsStored)

EmailsOf(us) == [k \in 1..Len(us) |-> us[k].email]

RECURSIVE Flatten(_)
Flatten(ss) == IF ss = <<>> THEN <<>> ELSE Head(ss) \o Flatten(Tail(ss))

Occurrences(s, e) == Cardinality({k \in 1..Len(s) : s[k] = e})

BatchUsers(b) == {b.users[k] : k \in 1..Len(b.users)}

WrittenBy(r) == UNION {BatchUsers(r.batches[i]) : i \in 1..Len(r.batches)}

\* the last batch of the run that holds email e
LastBatch(r, e) ==
    CHOOSE i \in 1..Len(r.batches) :
        /\ e \in BatchUsers(r.batches[i])
        /\ \A j \in 1..Len(r.batches) : e \in BatchUsers(r.batches[j]) => j <= i

WindowMinutes(r) == ParseHM(r.end_time) - ParseHM(r.start_time)

\* groupNumber maximum of a store, 0 when no candidate has one
PriorMax(d) ==
    LET gs == {d[e].groupNumber : e \in Stored} \ {None}
    IN  IF gs = {} THEN 0 ELSE CHOOSE g \in gs : \A h \in gs : h <= g

SameDay(x, y) == x.date = y.date

-----------------------------------------------------------------------------
(* C1 *)

\* C1: in every produced batch entry the screening time is the GD time plus
\* roundDuration minutes and the interview time the screening time plus
\* roundDuration minutes, and the same holds, on one date, of the datetimes
\* stored on every candidate of a batch.
C1_StageSpacing ==
    \A p \in Procs :
        LET r == run[p] IN
        /\ \A i \in 1..Len(r.batches) :
              LET b == r.batches[i] IN
              /\ ParseHM(b.screeningTime) = ParseHM(b.gdTime) + r.round_duration
              /\ ParseHM(b.interviewTime) = ParseHM(b.screeningTime) + r.round_duration
        /\ \A e \in WrittenBy(r) :
              LET u == db[e] IN
              /\ SameDay(u.screening.datetime, u.gd.datetime)
              /\ SameDay(u.pi.datetime, u.screening.datetime)
              /\ ParseHM(u.screening.datetime.time)
                    = ParseHM(u.gd.datetime.time) + r.round_duration
              /\ ParseHM(u.pi.datetime.time)
                    = ParseHM(u.screening.datetime.time) + r.round_duration

\* a finished run whose first batch crosses the hour between GD and screening
C1_Witness ==
    \E p \in Procs :
        /\ run[p].pc = "done"
        /\ Len(run[p].batches) >= 1
        /\ run[p].batches[1].gdTime = <<17, 50>>
        /\ run[p].batches[1].screeningTime = <<18, 0>>
        /\ \E e \in BatchUsers(run[p].batches[1]) :
              db[e].screening.datetime.time = <<18, 0>>

-----------------------------------------------------------------------------
(* C2 *)

\* C2: no batch is assigned a Sunday: the date of every batch entry and the
\* date of every gd, screening and pi datetime stored by the run is a weekday
\* other than Sunday, also when startDate is a Sunday.
C2_NoBatchOnSunday ==
    \A p \in Procs :
        LET r == run[p] IN
        /\ \A i \in 1..Len(r.batches) :
              Weekday(Strptime(r.batches[i].date)) # 6
        /\ \A e \in WrittenBy(r) :
              /\ Weekday(Strptime(db[e].gd.datetime.date)) # 6
              /\ Weekday(Strptime(db[e].screening.datetime.date)) # 6
              /\ Weekday(Strptime(db[e].pi.datetime.date)) # 6

-----------------------------------------------------------------------------
(* C3 *)

\* C3: the three-stage window of every produced batch lies inside the work
\* day: its GD starts at or after startTime and GD start plus three durations
\* is at most endTime; a batch that would cross endTime right after its
\* predecessor is on a later date and starts at startTime.
C3_WindowInsideWorkDay ==
    \A p \in Procs :
        LET r == run[p] IN
        \A i \in 1..Len(r.batches) :
            LET b == r.batches[i] IN
            /\ ParseHM(b.gdTime) >= ParseHM(r.start_time)
            /\ ParseHM(b.gdTime) + 3 * r.round_duration <= ParseHM(r.end_time)
            /\ ParseHM(b.interviewTime) <= ParseHM(r.end_time)
            /\ i > 1 =>
                 LET a == r.batches[i - 1] IN
                 ParseHM(a.gdTime) + 4 * r.round_duration > ParseHM(r.end_time)
                    => /\ Strptime(b.date) > Strptime(a.date)
                       /\ b.gdTime = r.start_time

\* a finished run that had to defer its second batch to a later day, after
\* a first day that held a batch ending exactly at endTime
C3_Witness ==
    \E p \in Procs :
        /\ run[p].pc = "done"
        /\ Len(run[p].batches) >= 2
        /\ ParseHM(run[p].batches[1].gdTime) + 3 * run[p].round_duration
              = ParseHM(run[p].end_time)
        /\ Strptime(run[p].batches[2].date) > Strptime(run[p].batches[1].date)
        /\ run[p].batches[2].gdTime = run[p].start_time

-----------------------------------------------------------------------------
(* C4 *)

\* C4: batch i of a run (in result order) has batchNumber i and groupNumber
\* M + i, M being the maximum groupNumber stored when the run started (0 if
\* none), and a run that produces batches has read M exactly once.
C4_GroupNumbering ==
    \A p \in Procs :
        LET r == run[p] IN
        /\ \A i \in 1..Len(r.batches) :
              /\ r.batches[i].batchNumber = i
              /\ r.batches[i].groupNumber = PriorMax(r.db0) + i
        /\ r.max_reads <= 1
        /\ Len(r.batches) >= 1 => r.max_reads = 1

\* a finished run of two batches over a store whose maximum group was 2
C4_Witness ==
    \E p \in Procs :
        /\ run[p].pc = "done"
        /\ PriorMax(run[p].db0) = 2
        /\ Len(run[p].result.batches) = 2
        /\ run[p].result.batches[2].groupNumber = 4

-----------------------------------------------------------------------------
(* C5 *)

\* C5: when a run has completed, the candidates it scheduled that are stored
\* with the same groupNumber have the same gd, screening and pi datetimes,
\* the batches of the run have pairwise different groupNumbers, and
\* candidates whose (last) batches differ are stored with different
\* groupNumbers.
C5_SameGroupSameTimes ==
    \A p \in Procs :
        LET r == run[p] IN
        r.pc = "done" =>
            /\ \A e1, e2 \in WrittenBy(r) :
                  db[e1].groupNumber = db[e2].groupNumber
                     => /\ db[e1].gd.datetime = db[e2].gd.datetime
                        /\ db[e1].screening.datetime = db[e2].screening.datetime
                        /\ db[e1].pi.datetime = db[e2].pi.datetime
            /\ \A i, j \in 1..Len(r.batches) :
                  i # j => r.batches[i].groupNumber # r.batches[j].groupNumber
            /\ \A e1, e2 \in WrittenBy(r) :
                  LastBatch(r, e1) # LastBatch(r, e2)
                     => db[e1].groupNumber # db[e2].groupNumber

\* a finished run with two candidates in one group and a third in another
C5_Witness ==
    \E p \in Procs :
        /\ run[p].pc = "done"
        /\ \E e1, e2, e3 \in WrittenBy(run[p]) :
              /\ e1 # e2
              /\ db[e1].groupNumber = db[e2].groupNumber
              /\ db[e3].groupNumber # db[e1].groupNumber
              /\ db[e3].gd.datetime # db[e1].gd.datetime

-----------------------------------------------------------------------------
(* C6 *)

\* C6: partitioning the n fetched candidates with batchSize b gives
\* ceil(n/b) batches, each of at most b candidates and all but the last of
\* exactly b, the batches laid end to end are the partitioned list (every
\* candidate is in exactly one batch), and totalBatches is the length of the
\* returned batches list.
C6_PartitionShape ==
    \A p \in Procs :
        LET r == run[p]
            n == Len(r.users)
            k == Len(r.result.batches)
        IN
        r.pc = "done" =>
            /\ k = Ceil(n, r.batch_size)
            /\ r.result.totalBatches = k
            /\ \A i \in 1..k :
                  /\ Len(r.result.batches[i].users) <= r.batch_size
                  /\ Len(r.result.batches[i].users) >= 1
                  /\ i < k => Len(r.result.batches[i].users) = r.batch_size
            /\ Flatten([i \in 1..k |-> r.result.batches[i].users]) = EmailsOf(r.users)

\* three candidates in batches of two: a full batch and a last one of one
C6_Witness ==
    \E p \in Procs :
        /\ run[p].pc = "done"
        /\ Len(run[p].users) = 3
        /\ run[p].batch_size = 2
        /\ Len(run[p].result.batches) = 2
        /\ Len(run[p].result.batches[1].users) = 2
        /\ Len(run[p].result.batches[2].users) = 1

-----------------------------------------------------------------------------
(* C7 *)

\* C7 as stated: batch i of a finished run holds the requested emails at
\* request positions (i-1)*batchSize+1 .. min(i*batchSize, n), in request
\* order.
C7_InputOrderPreserved ==
    \A p \in Procs :
        LET r == run[p] IN
        r.pc = "done" =>
            \A i \in 1..Len(r.result.batches) :
                r.result.batches[i].users
                    = SubSeq(r.emails, (i - 1) * r.batch_size + 1,
                             Min(i * r.batch_size, Len(r.emails)))

\* C7 amended: the batches preserve the order of the shuffled list of the
\* resolved candidates: batch i holds positions (i-1)*batchSize+1 ..
\* min(i*batchSize, n) of that list, which is a rearrangement of the
\* requested emails that resolve.
C7_ShuffledOrderPreserved ==
    \A p \in Procs :
        LET r == run[p]
            shuffled == EmailsOf(r.users)
        IN
        r.pc = "done" =>
            /\ \A i \in 1..Len(r.result.batches) :
                  r.result.batches[i].users
                      = SubSeq(shuffled, (i - 1) * r.batch_size + 1,
                               Min(i * r.batch_size, Len(shuffled)))
            /\ Len(shuffled) = Len(Resolved(r))
            /\ \A e \in Stored :
                  Occurrences(shuffled, e) = Occurrences(r.emails, e)

\* a finished run whose batches are in another order than the request
C7_Witness ==
    \E p \in Procs :
        /\ run[p].pc = "done"
        /\ run[p].emails = <<"a", "b", "c">>
        /\ run[p].batch_size = 2
        /\ Len(run[p].result.batches) = 2
        /\ run[p].result.batches[1].users = <<"c", "a">>
        /\ run[p].result.batches[2].users = <<"b">>

-----------------------------------------------------------------------------
(* C8 *)

\* C8: emails that do not resolve never stop a run: once the lookups are
\* over every requested email is either fetched or in failed, and a run that
\* returns reports totalUsersScheduled = number of requested emails that
\* resolve, failed = one "User not found" entry per unresolved email, and
\* every resolved candidate is stored with status scheduled in gd, screening
\* and pi.
C8_MissingDoNotStop ==
    \A p \in Procs :
        LET r == run[p]
            missing == SelectSeq(r.emails, IsUnknown)
        IN
        /\ r.pc \in {"readmax", "batch", "save", "done", "error"}
              => Len(r.users) + Len(r.failed) = Len(r.emails)
        /\ r.pc = "done" =>
              /\ r.result.totalUsersScheduled = Len(Resolved(r))
              /\ r.result.failed =
                    [k \in 1..Len(missing) |->
                        [email |-> missing[k], reason |-> "User not found"]]
              /\ \A k \in 1..Len(r.emails) :
                    IsStored(r.emails[k]) =>
                        /\ db[r.emails[k]].gd.status = "scheduled"
                        /\ db[r.emails[k]].screening.status = "scheduled"
                        /\ db[r.emails[k]].pi.status = "scheduled"

\* a finished run whose first email is unknown and whose other two were
\* scheduled
C8_Witness ==
    \E p \in Procs :
        /\ run[p].pc = "done"
        /\ run[p].emails = <<"x", "a", "b">>
        /\ run[p].result.totalUsersScheduled = 2
        /\ Len(run[p].result.failed) = 1
        /\ db["a"].pi.status = "scheduled"
        /\ db["b"].pi.status = "scheduled"

-----------------------------------------------------------------------------
(* C9 *)

\* C9 as stated: the number of batches follows from the requested emails:
\* totalBatches = ceil(len(emails) / batchSize).
C9_BatchCountFromRequested ==
    \A p \in Procs :
        LET r == run[p] IN
        r.pc = "done" =>
            r.result.totalBatches = Ceil(Len(r.emails), r.batch_size)

\* C9 amended: the number of batches follows from the candidates found:
\* totalBatches = ceil(N / batchSize), N the number of requested emails that
\* resolve; an unresolved email is in no batch and the batches hold N
\* candidates in all.
C9_BatchCountFromFound ==
    \A p \in Procs :
        LET r == run[p]
            all == Flatten([i \in 1..Len(r.result.batches) |-> r.result.batches[i].users])
        IN
        r.pc = "done" =>
            /\ r.result.totalBatches = Ceil(Len(Resolved(r)), r.batch_size)
            /\ Len(r.result.batches) = r.result.totalBatches
            /\ Len(all) = Len(Resolved(r))
            /\ \A k \in 1..Len(all) : IsStored(all[k])

\* a finished run with an unknown email that has fewer batches than the
\* requested emails would fill
C9_Witness ==
    \E p \in Procs :
        /\ run[p].pc = "done"
        /\ run[p].emails = <<"a", "x", "b">>
        /\ run[p].batch_size = 2
        /\ run[p].result.totalBatches = 1
        /\ Ceil(Len(run[p].emails), run[p].batch_size) = 2

-----------------------------------------------------------------------------
(* C10 *)

\* C10 as stated: a call whose window is smaller than three durations never
\* ends in a result summary.
C10_SmallWindowNeverReturns ==
    \A p \in Procs :
        LET r == run[p] IN
        r.pc = "done" => WindowMinutes(r) >= 3 * r.round_duration

\* C10 amended: a call whose window is smaller than three durations, in
\* which at least one email resolves and startDate is a calendar date, ends
\* in the capacity error once its lookups and the group read are over, and
\* never reaches the scheduling loop; when no email resolves the call
\* returns the empty summary.
C10_SmallWindowFailsWhenResolved ==
    \A p \in Procs :
        LET r == run[p] IN
        (r.pc \notin {"idle", "rejected"}
            /\ WindowMinutes(r) < 3 * r.round_duration) =>
            /\ r.pc \in {"fetch", "readmax", "done", "error"}
            /\ (r.pc = "error" /\ DateValid(r.start_date)) => r.err = "capacity"
            /\ r.pc = "error" => Len(Resolved(r)) >= 1
            /\ r.pc = "done" =>
                  /\ Len(Resolved(r)) = 0
                  /\ r.result.totalUsersScheduled = 0
                  /\ r.result.totalBatches = 0
                  /\ r.result.batches = <<>>

\* a call with a 25-minute window and 10-minute rounds that ended in the
\* capacity error after fetching a candidate
C10_Witness ==
    \E p \in Procs :
        /\ run[p].pc = "error"
        /\ run[p].err = "capacity"
        /\ run[p].users # <<>>
        /\ WindowMinutes(run[p]) = 25
        /\ run[p].round_duration = 10

-----------------------------------------------------------------------------
(* C11 *)

\* emails saved by the run so far, the batch in progress included
WrittenSoFar(r) ==
    WrittenBy(r) \cup {r.batch_emails[k] : k \in 1..Len(r.batch_emails)}

\* C11: a call that reports the capacity error, and any call whose window is
\* smaller than three durations, has scheduled no batch and written no
\* candidate: the store is the store the call started with.
C11_NoWriteOnCapacityFailure ==
    \A p \in Procs :
        LET r == run[p] IN
        (\/ r.pc = "error" /\ r.err = "capacity"
         \/ r.pc \notin {"idle", "rejected"}
               /\ WindowMinutes(r) < 3 * r.round_duration) =>
            /\ db = r.db0
            /\ r.batches = <<>>
            /\ \A k \in 1..Len(r.ops) : r.ops[k].op # "write"

\* the capacity error reported after a candidate with earlier rounds was
\* fetched: its record is as it was
C11_Witness ==
    \E p \in Procs :
        /\ run[p].pc = "error"
        /\ run[p].err = "capacity"
        /\ \E k \in 1..Len(run[p].users) : run[p].users[k].email = "c"
        /\ run[p].db0["c"].groupNumber = 2
        /\ db["c"] = run[p].db0["c"]

-----------------------------------------------------------------------------
(* C12 *)

\* C12: a save failure for one candidate does not stop the run: no run ends
\* in an error raised by a save (the failure would be in failed and the run
\* would go on to return its summary).
C12_SaveFailureDoesNotStop ==
    \A p \in Procs :
        ~(run[p].pc = "error" /\ run[p].err = "save")

-----------------------------------------------------------------------------
(* C13 *)

\* C13: a run is not atomic: at every point at which it can be aborted, and
\* after a save error has ended it, every candidate it has written holds a
\* group number of the run and scheduled rounds, and every candidate it has
\* not written is as it was when the run started.
C13_WrittenStayRestUnchanged ==
    \A p \in Procs :
        LET r == run[p] IN
        r.pc \in {"batch", "save", "error", "done"} =>
            \A e \in Stored :
                IF e \in WrittenSoFar(r)
                THEN /\ db[e].groupNumber > r.last_group
                     /\ db[e].groupNumber <= r.current_group
                     /\ db[e].gd.status = "scheduled"
                     /\ db[e].screening.status = "scheduled"
                     /\ db[e].pi.status = "scheduled"
                     /\ db[e] # r.db0[e]
                ELSE db[e] = r.db0[e]

\* a run ended by a save error after it wrote one candidate and before it
\* wrote another one it had fetched
C13_Witness ==
    \E p \in Procs :
        /\ run[p].pc = "error"
        /\ run[p].err = "save"
        /\ "a" \in WrittenSoFar(run[p])
        /\ db["a"].groupNumber = run[p].last_group + 1
        /\ "c" \notin WrittenSoFar(run[p])
        /\ \E k \in 1..Len(run[p].users) : run[p].users[k].email = "c"
        /\ db["c"] = run[p].db0["c"]

-----------------------------------------------------------------------------
(* C14 *)

\* the batches among the first n of the run that are on the date of batch n
OnDayUpTo(r, n) ==
    Cardinality({j \in 1..n : r.batches[j].date = r.batches[n].date})

\* floor((windowMinutes - 2*roundDuration) / roundDuration) + 1
CapacityFormula(r) ==
    (WindowMinutes(r) - 2 * r.round_duration) \div r.round_duration + 1

\* C14 as stated: a batch stays on the day of the batch before it whenever
\* fewer than maxBatchesPerDay batches are on that day and its interview
\* start, GD start plus two durations, is not after endTime; a day that
\* overflows holds exactly maxBatchesPerDay batches.
C14_StaysWhileInterviewStartFits ==
    \A p \in Procs :
        LET r == run[p] IN
        \A i \in 2..Len(r.batches) :
            LET a == r.batches[i - 1]
                b == r.batches[i]
            IN
            /\ (OnDayUpTo(r, i - 1) < CapacityFormula(r)
                  /\ ParseHM(a.gdTime) + r.round_duration + 2 * r.round_duration
                        <= ParseHM(r.end_time))
                  => b.date = a.date
            /\ b.date # a.date => OnDayUpTo(r, i - 1) = CapacityFormula(r)

\* C14 amended: a batch stays on the day of the batch before it whenever
\* fewer than maxBatchesPerDay batches are on that day and the end of its
\* interview, GD start plus three durations, is not after endTime; a day
\* that overflows holds exactly maxBatchesPerDay - 1 = floor(window /
\* roundDuration) - 2 batches.
C14_StaysWhileWindowFits ==
    \A p \in Procs :
        LET r == run[p] IN
        /\ r.pc \in {"batch", "save"}
              => r.max_batches_per_day = CapacityFormula(r)
        /\ \A i \in 2..Len(r.batches) :
              LET a == r.batches[i - 1]
                  b == r.batches[i]
              IN
              /\ (OnDayUpTo(r, i - 1) < CapacityFormula(r)
                    /\ ParseHM(a.gdTime) + r.round_duration + 3 * r.round_duration
                          <= ParseHM(r.end_time))
                    => /\ b.date = a.date
                       /\ ParseHM(b.gdTime) = ParseHM(a.gdTime) + r.round_duration
              /\ b.date # a.date =>
                    /\ OnDayUpTo(r, i - 1) = CapacityFormula(r) - 1
                    /\ OnDayUpTo(r, i - 1)
                          = WindowMinutes(r) \div r.round_duration - 2

\* 40-minute window, 10-minute rounds, three batches: two on the first day
\* (one fewer than the formula's three), the third on a later day
C14_Witness ==
    \E p \in Procs :
        /\ run[p].pc = "done"
        /\ WindowMinutes(run[p]) = 40
        /\ run[p].round_duration = 10
        /\ run[p].max_batches_per_day = 3
        /\ Len(run[p].batches) = 3
        /\ run[p].batches[2].date = run[p].batches[1].date
        /\ run[p].batches[3].date # run[p].batches[2].date

-----------------------------------------------------------------------------
(* C15 *)

\* C15: the schedule is pipelined: the batch with k batches before it on its
\* date has its GD at startTime + k * roundDuration, so the first batch of a
\* date starts at startTime and every further one starts its GD when the
\* batch before it starts its screening.
C15_Pipelined ==
    \A p \in Procs :
        LET r == run[p] IN
        \A i \in 1..Len(r.batches) :
            LET k == OnDayUpTo(r, i) - 1 IN
            /\ ParseHM(r.batches[i].gdTime)
                  = ParseHM(r.start_time) + k * r.round_duration
            /\ k >= 1 => /\ r.batches[i - 1].date = r.batches[i].date
                         /\ r.batches[i].gdTime = r.batches[i - 1].screeningTime

\* two batches from 17:00 with 10-minute rounds: 17:00/17:10/17:20 and
\* 17:10/17:20/17:30 on one date
C15_Witness ==
    \E p \in Procs :
        /\ run[p].pc = "done"
        /\ Len(run[p].result.batches) = 2
        /\ run[p].result.batches[1].date = run[p].result.batches[2].date
        /\ run[p].result.batches[1].gdTime = <<17, 0>>
        /\ run[p].result.batches[1].screeningTime = <<17, 10>>
        /\ run[p].result.batches[1].interviewTime = <<17, 20>>
        /\ run[p].result.batches[2].gdTime = <<17, 10>>
        /\ run[p].result.batches[2].screeningTime = <<17, 20>>
        /\ run[p].result.batches[2].interviewTime = <<17, 30>>

-----------------------------------------------------------------------------
(* C16 *)

\* the day after d, or the day after that when the day after is a Sunday
NextEligible(d) == IF Weekday(d + 1) = 6 THEN d + 2 ELSE d + 1

\* C16: the date of every batch after the first is the date of the batch
\* before it or the earliest later date that is not a Sunday: no eligible
\* day is skipped and no batch goes back in time.
C16_NextEligibleDay ==
    \A p \in Procs :
        LET r == run[p] IN
        \A i \in 2..Len(r.batches) :
            LET da == Strptime(r.batches[i - 1].date)
                dn == Strptime(r.batches[i].date)
            IN
            /\ dn = da \/ dn = NextEligible(da)
            /\ dn >= da
            /\ ParseHM(r.batches[i - 1].gdTime) + 4 * r.round_duration
                  > ParseHM(r.end_time) => dn = NextEligible(da)

\* a batch on Saturday 2025-09-06 followed by a batch on Monday 2025-09-08
C16_Witness ==
    \E p \in Procs :
        /\ run[p].pc = "done"
        /\ Len(run[p].batches) >= 2
        /\ \E i \in 2..Len(run[p].batches) :
              /\ run[p].batches[i - 1].date = <<2025, 9, 6>>
              /\ run[p].batches[i].date = <<2025, 9, 8>>

-----------------------------------------------------------------------------
(* C18 *)

\* C18 as stated: between the read of a candidate's record and the write of
\* that record the run reads and writes no other candidate's record: every
\* write is preceded by a read of the same candidate with nothing but
\* operations on that candidate in between.
C18_ReadThenWritePairs ==
    \A p \in Procs :
        LET ops == run[p].ops IN
        \A j \in 1..Len(ops) :
            ops[j].op = "write" =>
                \E i \in 1..(j - 1) :
                    /\ ops[i].op = "read"
                    /\ ops[i].email = ops[j].email
                    /\ \A k \in (i + 1)..(j - 1) : ops[k].email = ops[j].email

\* C18 amended: every record is read before any is written: the run does
\* all its lookups, then the scan of all candidates for the maximum group
\* number, and only then its writes, so every write follows a lookup of the
\* same candidate and the scan, and no read follows a write.
C18_ReadsBeforeWrites ==
    \A p \in Procs :
        LET ops == run[p].ops IN
        \A j \in 1..Len(ops) :
            /\ ops[j].op = "write" =>
                  /\ \E i \in 1..(j - 1) :
                        ops[i].op = "read" /\ ops[i].email = ops[j].email
                  /\ \E i \in 1..(j - 1) : ops[i].op = "scan"
                  /\ \A k \in (j + 1)..Len(ops) : ops[k].op = "write"
            /\ ops[j].op = "scan" =>
                  \A i \in 1..(j - 1) : ops[i].op = "read"

\* a finished run that looked up a and b, scanned, and wrote both: the
\* first record read is held across the second lookup and the scan
C18_Witness ==
    \E p \in Procs :
        /\ run[p].pc = "done"
        /\ Len(run[p].ops) = 5
        /\ run[p].ops[1] = [op |-> "read", email |-> "a"]
        /\ run[p].ops[2] = [op |-> "read", email |-> "b"]
        /\ run[p].ops[3].op = "scan"
        /\ run[p].ops[4] = [op |-> "write", email |-> "b"]
        /\ run[p].ops[5] = [op |-> "write", email |-> "a"]

-----------------------------------------------------------------------------
(* C19 *)

RequestedEmails(r) == {r.emails[k] : k \in 1..Len(r.emails)}

\* C19: a run that does not interleave with other operations changes only
\* groupNumber, gd, screening and pi, and only of candidates whose email is
\* requested: the other fields of every candidate and the whole record of
\* every other candidate are as they were when the run started.
C19_OnlySchedulingFields ==
    \A p \in Procs :
        LET r == run[p] IN
        r.pc \notin {"idle", "rejected"} =>
            \A e \in Stored :
                /\ db[e].email = r.db0[e].email
                /\ db[e].isPresent = r.db0[e].isPresent
                /\ e \notin RequestedEmails(r) => db[e] = r.db0[e]

\* a finished run that rescheduled the present candidate c and did not
\* touch b, which was not requested
C19_Witness ==
    \E p \in Procs :
        /\ run[p].pc = "done"
        /\ "c" \in WrittenBy(run[p])
        /\ run[p].db0["c"].isPresent
        /\ db["c"].isPresent
        /\ db["c"].groupNumber # run[p].db0["c"].groupNumber
        /\ "b" \notin RequestedEmails(run[p])
        /\ db["b"] = run[p].db0["b"]

-----------------------------------------------------------------------------
(* C20 *)

\* "Batch <batchNumber> - Group <groupNumber>" of a batch entry
LabelOf(kind, b) == [kind |-> kind, batch |-> b.batchNumber, group |-> b.groupNumber]

\* C20: every candidate written by a finished run, whatever its rounds were
\* before, has gd, screening and pi of status scheduled with the timestamp
\* of the stage and the label of its own batch, the label being a bare
\* string in gd and screening and a one-element list in pi.
C20_RoundsOverwritten ==
    \A p \in Procs :
        LET r == run[p] IN
        r.pc = "done" =>
            \A e \in WrittenBy(r) :
                LET b == r.batches[LastBatch(r, e)] IN
                /\ db[e].groupNumber = b.groupNumber
                /\ db[e].gd = [status |-> "scheduled",
                               datetime |-> [date |-> b.date, time |-> b.gdTime],
                               remarks |-> LabelOf("text", b)]
                /\ db[e].screening = [status |-> "scheduled",
                               datetime |-> [date |-> b.date, time |-> b.screeningTime],
                               remarks |-> LabelOf("text", b)]
                /\ db[e].pi = [status |-> "scheduled",
                               datetime |-> [date |-> b.date, time |-> b.interviewTime],
                               remarks |-> LabelOf("list", b)]

\* a finished run that rescheduled c, whose rounds were selected, rejected
\* and absent
C20_Witness ==
    \E p \in Procs :
        /\ run[p].pc = "done"
        /\ "c" \in WrittenBy(run[p])
        /\ run[p].db0["c"].gd.status = "selected"
        /\ run[p].db0["c"].screening.status = "rejected"
        /\ run[p].db0["c"].pi.status = "absent"
        /\ db["c"].gd.status = "scheduled"
        /\ db["c"].gd.remarks.kind = "text"
        /\ db["c"].pi.remarks.kind = "list"
        /\ db["c"].pi.remarks.batch = 2

-----------------------------------------------------------------------------
(* C17 *)

\* C17: two interleaved runs can give batches of different runs the same
\* groupNumber: each run numbers its batches from the maximum it read in its
\* single read, whatever the other run has read or written since, so two
\* runs that read the same maximum give their i-th batches the same
\* groupNumber; no run ends in an error other than the capacity, date and
\* save errors, so the collision is neither detected nor prevented.
C17_GroupNumbersCollide ==
    \A p \in Procs :
        LET r == run[p] IN
        /\ r.max_reads <= 1
        /\ \A i \in 1..Len(r.batches) :
              r.batches[i].groupNumber = PriorMax(r.db_read) + i
        /\ r.pc = "error" => r.err \in {"capacity", "date", "save"}
        /\ \A q \in Procs \ {p} :
              (run[q].max_reads = 1 /\ r.max_reads = 1
                  /\ PriorMax(run[q].db_read) = PriorMax(r.db_read)) =>
                  \A i \in 1..Min(Len(r.batches), Len(run[q].batches)) :
                      r.batches[i].groupNumber = run[q].batches[i].groupNumber

\* both runs have returned and two candidates, one from each run, have the
\* same groupNumber and different gd, screening and pi datetimes
C17_Witness ==
    /\ \A p \in Procs : run[p].pc = "done"
    /\ "a" \in WrittenBy(run[1])
    /\ "b" \in WrittenBy(run[2])
    /\ "a" \notin WrittenBy(run[2])
    /\ "b" \notin WrittenBy(run[1])
    /\ db["a"].groupNumber = db["b"].groupNumber
    /\ db["a"].gd.datetime # db["b"].gd.datetime
    /\ db["a"].screening.datetime # db["b"].screening.datetime
    /\ db["a"].pi.datetime # db["b"].pi.datetime

-----------------------------------------------------------------------------
(* C21 *)

StoredDatetime(b, t) == [date |-> b.date, time |-> t]

\* C21: the returned batches are derivable from the stored candidates: after
\* a run has returned, every email in the users list of every returned batch
\* is stored with the groupNumber of that batch and with gd, screening and pi
\* datetimes equal to the batch's date combined with its gdTime,
\* screeningTime and interviewTime, also when an email is requested twice.
C21_BatchesDerivable ==
    \A p \in Procs :
        LET r == run[p] IN
        r.pc = "done" =>
            \A i \in 1..Len(r.result.batches) :
                LET b == r.result.batches[i] IN
                \A e \in BatchUsers(b) :
                    /\ db[e].groupNumber = b.groupNumber
                    /\ db[e].gd.datetime = StoredDatetime(b, b.gdTime)
                    /\ db[e].screening.datetime = StoredDatetime(b, b.screeningTime)
                    /\ db[e].pi.datetime = StoredDatetime(b, b.interviewTime)

-----------------------------------------------------------------------------
(* C22 *)

\* the four reasons for which the request model refuses a request
Refused(r) ==
    \/ r.batch_size <= 0
    \/ r.round_duration <= 0
    \/ r.start_time[1] > 23 \/ r.start_time[2] > 59
    \/ r.end_time[1] > 23 \/ r.end_time[2] > 59
    \/ r.end_time[1] * 60 + r.end_time[2] <= r.start_time[1] * 60 + r.start_time[2]

\* C22: a request with batchSize <= 0, roundDuration <= 0, a malformed
\* startTime or endTime, or endTime not after startTime is rejected before
\* any scheduling work: it never leaves the rejected state, no candidate is
\* looked up, the group counter is not read or advanced, no batch is formed
\* and the store is as it was.
C22_RejectedBeforeWork ==
    \A p \in Procs :
        LET r == run[p] IN
        (r.pc # "idle" /\ Refused(r)) =>
            /\ r.pc = "rejected"
            /\ r.ops = <<>>
            /\ r.users = <<>>
            /\ r.failed = <<>>
            /\ r.max_reads = 0
            /\ r.current_group = 0
            /\ r.batches = <<>>
            /\ db = r.db0

\* a rejected request for a stored candidate with roundDuration 0
C22_Witness ==
    \E p \in Procs :
        /\ run[p].pc = "rejected"
        /\ run[p].round_duration = 0
        /\ run[p].batch_size = 1
        /\ run[p].emails = <<"a", "b">>
        /\ run[p].end_time = <<18, 30>>
        /\ db = run[p].db0

-----------------------------------------------------------------------------
(* C23 *)

\* C23: a call with an empty emails list, or one in which no email resolves,
\* returns the empty summary once its lookups are over: no scheduled user,
\* no batch, failed listing every supplied email in order, no error, the
\* group counter not read and the store as it was when the call started.
C23_NothingResolvedReturnsEmpty ==
    \A p \in Procs :
        LET r == run[p] IN
        (r.pc \notin {"idle", "rejected", "fetch"} /\ Len(Resolved(r)) = 0) =>
            /\ r.pc = "done"
            /\ r.result.totalUsersScheduled = 0
            /\ r.result.totalBatches = 0
            /\ r.result.batches = <<>>
            /\ r.result.failed =
                  [k \in 1..Len(r.emails) |->
                      [email |-> r.emails[k], reason |-> "User not found"]]
            /\ r.max_reads = 0
            /\ db = r.db0

\* a returned call for two unknown emails, with a date that is no calendar
\* date and a window too small for one batch
C23_Witness ==
    \E p \in Procs :
        /\ run[p].pc = "done"
        /\ run[p].emails = <<"x", "x">>
        /\ Len(run[p].result.failed) = 2
        /\ run[p].start_date = <<2025, 9, 31>>
        /\ WindowMinutes(run[p]) = 25
        /\ db = run[p].db0

\* a returned call with an empty emails list
C23_WitnessEmpty ==
    \E p \in Procs :
        /\ run[p].pc = "done"
        /\ run[p].emails = <<>>
        /\ run[p].result.failed = <<>>

-----------------------------------------------------------------------------
(* C24 *)

-----------------------------------------------------------------------------
(* C25 *)

\* the stored candidates of group g when the call started
MembersAtStart(r, g) == {e \in Stored : r.db0[e].groupNumber = g}

HasTimes(u) ==
    /\ u.gd.datetime # NoDatetime
    /\ u.screening.datetime # NoDatetime
    /\ u.pi.datetime # NoDatetime

FailedEmails(r) == {r.failed[k].email : k \in 1..Len(r.failed)}

KeptStatus(before, after) ==
    IF before.status = "none" THEN after.status = "scheduled"
    ELSE after.status = before.status

\* C25: change_user_groups moves candidates into an existing group only:
\* when no stored candidate has targetGroupNumber, or the reference
\* candidate of the group lacks one of the three datetimes, the call ends in
\* a ValueError and the store is as it was; otherwise, when it returns,
\* every supplied email that resolves and whose save did not raise has
\* groupNumber = targetGroupNumber and the gd, screening and pi datetimes of
\* the reference candidate, and keeps the status it had in each round
\* (scheduled where it had none); the other candidates are untouched.
C25_MoveIntoExistingGroup ==
    \A p \in Procs :
        LET r == run[p]
            g == r.target_group_number
            ms == MembersAtStart(r, g)
        IN
        /\ (r.pc \in {"grp_fetch", "grp_save", "grp_done", "grp_error"} /\ ms = {})
              => r.pc = "grp_error"
        /\ (r.pc \in {"grp_fetch", "grp_save", "grp_done", "grp_error"}
               /\ \A m \in ms : ~HasTimes(r.db0[m]))
              => r.pc = "grp_error"
        /\ r.pc = "grp_error" =>
              /\ db = r.db0
              /\ r.updated_users = <<>>
              /\ ms = {} \/ \E m \in ms : ~HasTimes(r.db0[m])
        /\ r.pc \in {"grp_fetch", "grp_save", "grp_done"} =>
              /\ \E m \in ms : r.reference_user = r.db0[m]
              /\ HasTimes(r.reference_user)
        /\ r.pc = "grp_done" =>
              /\ \A k \in 1..Len(r.emails) :
                    IsUnknown(r.emails[k]) => r.emails[k] \in FailedEmails(r)
              /\ \A e \in SetOf(r.emails) \ FailedEmails(r) :
                    /\ db[e].groupNumber = g
                    /\ db[e].gd.datetime = r.reference_user.gd.datetime
                    /\ db[e].screening.datetime = r.reference_user.screening.datetime
                    /\ db[e].pi.datetime = r.reference_user.pi.datetime
                    /\ KeptStatus(r.db0[e].gd, db[e].gd)
                    /\ KeptStatus(r.db0[e].screening, db[e].screening)
                    /\ KeptStatus(r.db0[e].pi, db[e].pi)
              /\ \A e \in Stored \ SetOf(r.emails) : db[e] = r.db0[e]

\* a returned call that moved a, a candidate of group 5 with judgements of
\* its own, into group 2: it has the times of c and its own statuses
C25_Witness ==
    \E p \in Procs :
        /\ run[p].pc = "grp_done"
        /\ run[p].target_group_number = 2
        /\ run[p].updated_users = <<"a", "b">>
        /\ run[p].db0["a"].groupNumber = 5
        /\ db["a"].groupNumber = 2
        /\ db["a"].gd.datetime = db["c"].gd.datetime
        /\ db["a"].gd.status = "absent"
        /\ db["a"].pi.status = "rejected"
        /\ db["b"].gd.status = "scheduled"

\* a call for a group that has a member without pi datetime, ended in the
\* ValueError with nothing written
C25_WitnessIncomplete ==
    \E p \in Procs :
        /\ run[p].pc = "grp_error"
        /\ run[p].err = "incomplete"
        /\ run[p].target_group_number = 3
        /\ run[p].emails = <<"a">>
        /\ db = run[p].db0

-----------------------------------------------------------------------------
(* C26 *)

\* the batches that fit on one day of the run's window
PerDay(r) == WindowMinutes(r) \div r.round_duration - 2

\* the k-th eligible day after day d
RECURSIVE NthDay(_, _)
NthDay(d, k) == IF k = 0 THEN d ELSE NthDay(NextEligible(d), k - 1)

HM(m) == <<m \div 60, m % 60>>

\* what the arguments and the store at the start fix of the i-th batch
ExpectedBatch(r, i) ==
    LET n == Len(Resolved(r))
        slot == (i - 1) % PerDay(r)
        gd == ParseHM(r.start_time) + slot * r.round_duration
    IN  [batchNumber |-> i,
         groupNumber |-> PriorMax(r.db0) + i,
         date |-> DateStr(NthDay(Strptime(r.start_date), (i - 1) \div PerDay(r))),
         gdTime |-> HM(gd),
         screeningTime |-> HM(gd + r.round_duration),
         interviewTime |-> HM(gd + 2 * r.round_duration),
         size |-> IF i * r.batch_size <= n THEN r.batch_size
                  ELSE n - (i - 1) * r.batch_size]

\* a batch entry without the names of its users
Shape(b) ==
    [batchNumber |-> b.batchNumber, groupNumber |-> b.groupNumber,
     date |-> b.date, gdTime |-> b.gdTime, screeningTime |-> b.screeningTime,
     interviewTime |-> b.interviewTime, size |-> Len(b.users)]

\* C26: the schedule is a function of the arguments and of the store at the
\* start, whatever the shuffle does: the number of batches, and for each
\* batch index the size, groupNumber, date, gdTime, screeningTime and
\* interviewTime are fixed by emails, batchSize, startDate, startTime,
\* endTime, roundDuration and the stored group numbers, so two runs from the
\* same store with the same arguments differ only in which candidate is in
\* which batch.
C26_ScheduleIsFunctionOfInputs ==
    \A p \in Procs :
        LET r == run[p] IN
        /\ \A i \in 1..Len(r.batches) : Shape(r.batches[i]) = ExpectedBatch(r, i)
        /\ r.pc = "done" =>
              /\ r.result.batches = r.batches
              /\ r.result.totalBatches = Ceil(Len(Resolved(r)), r.batch_size)
              /\ Len(r.batches) = r.result.totalBatches

\* a returned run of three batches, over two days, that the shuffle has
\* reordered: c, requested last, is in the first batch
C26_Witness ==
    \E p \in Procs :
        /\ run[p].pc = "done"
        /\ run[p].emails = <<"a", "b", "c">>
        /\ run[p].batch_size = 1
        /\ Len(run[p].batches) = 3
        /\ run[p].batches[1].users = <<"c">>
        /\ run[p].batches[3].date # run[p].batches[1].date
        /\ PriorMax(run[p].db0) = 2

-----------------------------------------------------------------------------
(* C27 *)

-----------------------------------------------------------------------------
(* C28 *)

\* (date, gdTime) of batch a is before that of batch b
Before(a, b) ==
    \/ Strptime(a.date) < Strptime(b.date)
    \/ /\ a.date = b.date
       /\ ParseHM(a.gdTime) < ParseHM(b.gdTime)

\* C28: within one run the schedule is ordered and conflict-free: the pairs
\* (date, gdTime) strictly increase in batch order, so no two batches have
\* the same stage in the same slot, and the three stage timestamps of every
\* batch are on the batch's own date, in the order gd, screening, interview:
\* no stage crosses midnight, in the batch being saved, in the batch entries
\* and in the stored datetimes.
C28_OrderedNoMidnight ==
    \A p \in Procs :
        LET r == run[p] IN
        /\ \A i \in 2..Len(r.batches) : Before(r.batches[i - 1], r.batches[i])
        /\ \A i, j \in 1..Len(r.batches) :
              i # j =>
                 /\ <<r.batches[i].date, r.batches[i].gdTime>>
                       # <<r.batches[j].date, r.batches[j].gdTime>>
                 /\ <<r.batches[i].date, r.batches[i].screeningTime>>
                       # <<r.batches[j].date, r.batches[j].screeningTime>>
                 /\ <<r.batches[i].date, r.batches[i].interviewTime>>
                       # <<r.batches[j].date, r.batches[j].interviewTime>>
        /\ r.pc = "save" =>
              /\ r.gd_time.day = r.current_date
              /\ r.screening_time.day = r.current_date
              /\ r.interview_time.day = r.current_date
        /\ \A i \in 1..Len(r.batches) :
              /\ ParseHM(r.batches[i].gdTime) < ParseHM(r.batches[i].screeningTime)
              /\ ParseHM(r.batches[i].screeningTime) < ParseHM(r.batches[i].interviewTime)
        /\ \A e \in WrittenSoFar(r) :
              /\ db[e].screening.datetime.date = db[e].gd.datetime.date
              /\ db[e].pi.datetime.date = db[e].gd.datetime.date
              /\ ParseHM(db[e].gd.datetime.time) < ParseHM(db[e].screening.datetime.time)
              /\ ParseHM(db[e].screening.datetime.time) < ParseHM(db[e].pi.datetime.time)
              /\ \/ \E i \in 1..Len(r.batches) : db[e].gd.datetime.date = r.batches[i].date
                 \/ db[e].gd.datetime.date = DateStr(r.current_date)

\* a returned run whose first batch has its interview at 23:40 on the last
\* day of September and whose second batch is on the first of October
C28_Witness ==
    \E p \in Procs :
        /\ run[p].pc = "done"
        /\ Len(run[p].batches) = 2
        /\ run[p].batches[1].date = <<2025, 9, 30>>
        /\ run[p].batches[1].gdTime = <<23, 20>>
        /\ run[p].batches[1].interviewTime = <<23, 40>>
        /\ run[p].batches[2].date = <<2025, 10, 1>>
        /\ run[p].batches[2].gdTime = <<23, 20>>
        /\ \E e \in BatchUsers(run[p].batches[1]) :
              db[e].pi.datetime = [date |-> <<2025, 9, 30>>, time |-> <<23, 40>>]

-----------------------------------------------------------------------------
(* C29 *)

\* C29: from a store in which no candidate has a groupNumber, after any
\* sequence of calls of bulk_create_rounds and change_user_groups that do
\* not overlap, and at every point inside such a call, two stored candidates
\* with the same groupNumber have the same gd, screening and pi datetimes.
C29_OneGroupOneSchedule ==
    \A e, f \in Stored :
        (db[e].groupNumber # None /\ db[e].groupNumber = db[f].groupNumber) =>
            /\ db[e].gd.datetime = db[f].gd.datetime
            /\ db[e].screening.datetime = db[f].screening.datetime
            /\ db[e].pi.datetime = db[f].pi.datetime

\* a returned change_user_groups call that moved b from group 2, with the
\* times of another day, into group 1 beside a, while c is in a later group
C29_Witness ==
    /\ run[1].pc = "grp_done"
    /\ run[1].updated_users = <<"b">>
    /\ run[1].db0["b"].groupNumber = 2
    /\ run[1].db0["b"].gd.datetime # run[1].db0["a"].gd.datetime
    /\ db["a"].groupNumber = 1
    /\ db["b"].groupNumber = 1
    /\ db["b"].gd.datetime = db["a"].gd.datetime
    /\ db["c"].groupNumber = 3

-----------------------------------------------------------------------------
(* C30 *)

====
